---- MODULE Spec2Model ----
(***************************************************************************)
(* The Sender component of the ChainPort wallet demo, in its four source   *)
(* variants (src/src/App.jsx, src/unnamed/part_000, part_001, part_002),   *)
(* together with the wallet and the RPC node it talks to.                  *)
(*                                                                         *)
(* One handleSend invocation is followed from the click to its last exit.  *)
(* Every await of the code is a program position (pc); the wallet or the   *)
(* node answers it in a separate step, after a latency and with a result   *)
(* that the environment chooses.  Time is counted in milliseconds since    *)
(* the click (the code only ever uses differences of Date.now()).          *)
(***************************************************************************)
EXTENDS Integers, Sequences, FiniteSets, TLC

\* ------------------------------------------------------------------ bounds
\* Longest latency of one wallet/RPC call, in halves of the timeout.
MaxDelay == 1
\* The chain is followed up to this block height.
MaxHeight == 1
\* Number of blocks a blockhash stays valid after the block it was taken at.
LeaseWindow == 0

\* ------------------------------------------------------- program constants
timeout == 60000
retryInterval == 2000
InitialRetries == 3
RetryWait == 1000
LAMPORTS_PER_SOL == 1000000000

\* A number is the pair mant / 10^scale; NaN carries the nan flag.
NaN == [nan |-> TRUE, mant |-> 0, scale |-> 0]
Num(m, s) == [nan |-> FALSE, mant |-> m, scale |-> s]

\* "No value" of the integer-valued locals (block hashes, heights,
\* signatures are numbered from 0 or 1).
None == -1

Variants == {"App", "part_000", "part_001", "part_002"}

\* ------------------------------------------------------------ pure helpers
Digits == {"0", "1", "2", "3", "4", "5", "6", "7", "8", "9"}

DigitVal(c) ==
  CASE c = "0" -> 0 [] c = "1" -> 1 [] c = "2" -> 2 [] c = "3" -> 3
    [] c = "4" -> 4 [] c = "5" -> 5 [] c = "6" -> 6 [] c = "7" -> 7
    [] c = "8" -> 8 [] c = "9" -> 9

RECURSIVE Pow10(_)
Pow10(n) == IF n = 0 THEN 1 ELSE 10 * Pow10(n - 1)

\* Length of the longest run of digits of s that starts at position i.
RECURSIVE DigitRun(_, _)
DigitRun(s, i) ==
  IF i <= Len(s) /\ s[i] \in Digits THEN 1 + DigitRun(s, i + 1) ELSE 0

\* Value of the digits s[i .. i+n-1] read as a decimal numeral.
RECURSIVE DigitsValue(_, _, _)
DigitsValue(s, i, n) ==
  IF n = 0 THEN 0
  ELSE 10 * DigitsValue(s, i, n - 1) + DigitVal(s[i + n - 1])

\* parseFloat on a string given as a tuple of characters: optional sign,
\* digits, optional fraction; the numeric prefix is read and the rest is
\* ignored; NaN when there is no numeric prefix.  A cancelled prompt gives
\* null, which parseFloat reads as the text "null".  (Exponents and
\* "Infinity" are not among the inputs.)
parseFloat(s) ==
    LET signed == Len(s) >= 1 /\ s[1] \in {"+", "-"}
        neg    == Len(s) >= 1 /\ s[1] = "-"
        i0     == IF signed THEN 2 ELSE 1
        ni     == DigitRun(s, i0)
        dot    == i0 + ni <= Len(s) /\ s[i0 + ni] = "."
        nf     == IF dot THEN DigitRun(s, i0 + ni + 1) ELSE 0
        int    == DigitsValue(s, i0, ni)
        abs    == (IF int = 0 THEN 0 ELSE int * Pow10(nf))
                    + DigitsValue(s, i0 + ni + 1, nf)
    IN  IF ni + nf = 0 THEN NaN
        ELSE Num(IF neg THEN 0 - abs ELSE abs, nf)

isNaN(a) == a.nan

\* amount <= 0 for a parsed number (every comparison with NaN is false).
NonPositive(a) == ~a.nan /\ a.mant <= 0

\* new PublicKey(to) throws unless to is base58 text decoding to 32 bytes.
PublicKeyThrows(to) == to.isNull \/ ~to.base58 \/ to.bytes # 32

\* !to of the prompting variants: null (prompt cancelled) or empty string.
IsFalsyString(to) == to.isNull \/ to.text = ""

\* String.prototype.includes on messages kept as tuples of words.
Includes(msg, needle) ==
  \E i \in 1..(Len(msg) - Len(needle) + 1) :
     SubSeq(msg, i, i + Len(needle) - 1) = needle

\* amount * LAMPORTS_PER_SOL as an exact fraction num/den.
AmountTimesLamports(a) ==
  IF a.scale <= 9
    THEN [num |-> a.mant * (LAMPORTS_PER_SOL \div Pow10(a.scale)), den |-> 1]
    ELSE [num |-> a.mant, den |-> Pow10(a.scale - 9)]

\* Math.round: nearest integer, halves up.
MathRound(q) ==
  [num |-> (q.num \div q.den) + (IF 2 * (q.num % q.den) >= q.den THEN 1 ELSE 0),
   den |-> 1]

Lamports(v, a) ==
  IF v = "part_000" THEN MathRound(AmountTimesLamports(a))
  ELSE AmountTimesLamports(a)

\* ------------------------------------------------------------------ inputs
\* A recipient text: what it is, whether it is base58, and how many bytes it
\* decodes to.  NullAddr is the null of a cancelled prompt.
Addr(t, b, n) == [isNull |-> FALSE, text |-> t, base58 |-> b, bytes |-> n]
NullAddr    == [isNull |-> TRUE, text |-> "", base58 |-> FALSE, bytes |-> 0]
EmptyAddr   == Addr("", TRUE, 0)
BadCharAddr == Addr("0OIl", FALSE, 0)
ShortAddr   == Addr("abc", TRUE, 2)
GoodAddr    == Addr("4Nd1mYvRk3oDPq6cuyV2bZ9zK5yQ7eW8xT1aB3cD5eFg", TRUE, 32)

RecipientInputs == {NullAddr, EmptyAddr, BadCharAddr, ShortAddr, GoodAddr}

NullText == <<"n", "u", "l", "l">>

AmountInputs ==
  {NullText, <<>>, <<"a", "b", "c">>, <<".">>, <<"-", "1">>, <<"0">>,
   <<"0", ".", "0", "x">>, <<"1", ".", "5">>}

Err(n, m, l) == [name |-> n, message |-> m, logs |-> l]

\* No error caught.
NoErr == Err("none", <<>>, <<>>)

NetworkError == Err("Error", <<"Network", "request", "failed">>, <<>>)

LeaseErrors == {NetworkError}

SendErrors ==
  {Err("WalletSignTransactionError", <<"User", "rejected", "the", "request">>, <<>>),
   Err("SendTransactionError",
       <<"Transaction", "simulation", "failed:", "Blockhash", "not", "found">>, <<>>),
   Err("SendTransactionError",
       <<"Transaction", "simulation", "failed:", "insufficient", "lamports">>,
       <<"Transfer:", "insufficient", "lamports">>)}

ConfirmErrors ==
  {Err("Error", <<"Blockhash", "not", "found">>, <<>>),
   Err("Error", <<"blockhash", "expired">>, <<>>),
   Err("TransactionExpiredBlockheightExceededError",
       <<"Signature", "has", "expired:", "block", "height", "exceeded">>, <<>>),
   NetworkError}

\* The error state of the component: null, or a text (a tuple of words).
NoError == [isNull |-> TRUE, text |-> <<>>]
ErrorText(t) == [isNull |-> FALSE, text |-> t]

NoKey == "none"
\* The keys of the wallets that may connect.
Wallets == {"Wallet1"}
NoLease == [blockhash |-> None, lastValidBlockHeight |-> None]
NoTransaction ==
  [recentBlockhash |-> None, toPubkey |-> NullAddr, lamports |-> [num |-> 0, den |-> 1]]
NoConfirm == [signature |-> None, blockhash |-> None, lastValidBlockHeight |-> None]

\* The components of a variant; the handlers of one of them are followed, as
\* the components share nothing but the wallet.  App.jsx has no MessageSigner.
Components(v) ==
  IF v = "App" THEN {"Sender", "AirdropSection"}
  ELSE {"Sender", "AirdropSection", "MessageSigner"}

\* useState(null) of balance, and bal / LAMPORTS_PER_SOL as a fraction.
NoBalance == [isNull |-> TRUE, num |-> 0, den |-> 1]
SolBalance(bal) == [isNull |-> FALSE, num |-> bal, den |-> LAMPORTS_PER_SOL]

\* Lamports that connection.getBalance may answer.
BalanceAnswers == {0, 1500000000}

\* Amounts with more than nine decimals, next to the other amounts.
TinyAmountInputs ==
  {<<"0", ".", "0", "0", "0", "0", "0", "0", "0", "0", "0", "4">>,
   <<"0", ".", "0", "0", "0", "0", "0", "0", "0", "0", "0", "5">>,
   <<"0", ".", "0", "0", "0", "0", "0", "0", "0", "0", "1", "5">>,
   <<"0", ".", "0", "0", "0", "0", "0", "0", "0", "0", "1">>}

\* Values of the amount field of AirdropSection.
AirdropAmountInputs == {<<>>, <<"0">>, <<"1", ".", "5">>}

\* Errors of requestAirdrop, confirmTransaction, getBalance and signMessage.
PanelErrors ==
  {NetworkError,
   Err("WalletSignMessageError", <<"User", "rejected", "the", "request">>, <<>>)}

\* Texts of the message field, and signatures returned by signMessage.
MessageInputs == {<<>>, <<" ", " ">>, <<" ", "h", "i">>}
SignatureBytes == {<<0, 171>>, <<255, 16>>}

\* useState("") of signature: nothing signed, nothing shown.
NoSigned == [message |-> <<>>, bytes |-> <<>>]

\* String.prototype.trim on a tuple of characters.
RECURSIVE TrimStart(_)
TrimStart(s) ==
  IF s # <<>> /\ Head(s) = " " THEN TrimStart(Tail(s)) ELSE s
RECURSIVE TrimEnd(_)
TrimEnd(s) ==
  IF s # <<>> /\ s[Len(s)] = " " THEN TrimEnd(SubSeq(s, 1, Len(s) - 1)) ELSE s
Trim(s) == TrimEnd(TrimStart(s))

\* Hexadecimal text of a byte array: Buffer.from(sig).toString("hex") in
\* part_000 and part_001, b.toString(16).padStart(2, '0') joined in part_002.
HexDigit(n) ==
  <<"0", "1", "2", "3", "4", "5", "6", "7", "8", "9",
    "a", "b", "c", "d", "e", "f">>[n + 1]
ToString16(b) ==
  IF b < 16 THEN <<HexDigit(b)>> ELSE <<HexDigit(b \div 16), HexDigit(b % 16)>>
PadStart2(s) == IF Len(s) < 2 THEN <<"0">> \o s ELSE s
RECURSIVE BufferToHex(_)
BufferToHex(bytes) ==
  IF bytes = <<>> THEN <<>>
  ELSE <<HexDigit(Head(bytes) \div 16), HexDigit(Head(bytes) % 16)>>
         \o BufferToHex(Tail(bytes))
RECURSIVE MapJoinHex(_)
MapJoinHex(bytes) ==
  IF bytes = <<>> THEN <<>>
  ELSE PadStart2(ToString16(Head(bytes))) \o MapJoinHex(Tail(bytes))
SignatureHex(v, bytes) ==
  IF v = "part_002" THEN MapJoinHex(bytes) ELSE BufferToHex(bytes)

\* Latencies of one wallet or RPC call.
Delays == {d * (timeout \div 2) : d \in 0..MaxDelay}

\* ------------------------------------------------------------------- state
VARIABLES
  variant,               \* which source file is running
  publicKey,             \* useWallet().publicKey
  toAddress, sendAmount, \* recipient and amount text of the invocation
  loading, error,        \* useState of Sender
  alertMsg,              \* the alert() shown by the invocation, if any
  pc,                    \* position of the handleSend invocation
  retries,               \* part_001: let retries
  blockhash, lastValidBlockHeight,   \* the lease held by the code
  transaction,           \* the Transaction object
  signature,             \* value returned by sendTransaction
  startTime,             \* part_000: const startTime
  result,                \* part_000: how confirmTransactionWithRetry ended
  now,                   \* Date.now(), in ms since the click
  blockHeight,           \* current block height of the cluster
  outcome,               \* how the invocation ended
  nLease, nSend, nConfirm,   \* calls made by the invocation
  nExpiry,               \* confirmation errors that were lease expiries
  lastCall,              \* last wallet/RPC/timer call issued
  lastEvent,             \* last answer received
  fetched,               \* lease returned by the most recent lease fetch
  submitted,             \* what was last handed over to the cluster
  confirmArgs,           \* arguments of the last confirmTransaction call
  helperBegan,           \* time at which confirmTransactionWithRetry began
  overlapped,            \* the click started an invocation during another
  nWait,                 \* retry waits (setTimeout) that have ended
  caught,                \* error received by the catch that ran last
  landed,                \* signatures of the transfers the cluster accepted
  component,             \* the component whose handler is followed
  balance,               \* AirdropSection: useState balance
  balanceKey,            \* the key for which the shown balance was fetched
  pendingBalance,        \* keys with a getBalance of useEffect in flight
  closureKey,            \* publicKey captured by the running handler
  sigHex,                \* MessageSigner: useState signature
  message,               \* MessageSigner: useState message
  closureMessage,        \* message captured by the running handleSignMessage
  signed                 \* message and bytes of the signature that is shown

uiVars    == <<loading, error, alertMsg, outcome, caught>>
inputVars == <<toAddress, sendAmount>>
leaseVars == <<blockhash, lastValidBlockHeight>>
callVars  == <<nLease, nSend, nConfirm>>
vars == <<variant, publicKey, toAddress, sendAmount, loading, error, alertMsg,
          pc, retries, blockhash, lastValidBlockHeight, transaction,
          signature, startTime, result, now, blockHeight, outcome, nLease,
          nSend, nConfirm, nExpiry, lastCall, lastEvent, fetched, submitted,
          confirmArgs, helperBegan, overlapped, nWait, caught, landed,
          component, balance, balanceKey, pendingBalance, closureKey, sigHex,
          message, closureMessage, signed>>

\* The state of AirdropSection and MessageSigner, and the state that only
\* Sender.handleSend uses.
panelVars == <<component, balance, balanceKey, pendingBalance, closureKey,
               sigHex, message, closureMessage, signed>>
senderVars == <<toAddress, sendAmount, retries, blockhash,
                lastValidBlockHeight, transaction, signature, startTime,
                result, now, nLease, nSend, nConfirm, nExpiry, lastCall,
                lastEvent, fetched, submitted, confirmArgs, helperBegan,
                nWait, landed>>

Retrying(v) == v \in {"part_000", "part_001"}

Init ==
  /\ variant \in Variants
  /\ publicKey = NoKey
  /\ toAddress = EmptyAddr /\ sendAmount = <<>>
  /\ loading = FALSE /\ error = NoError /\ alertMsg = "none"
  /\ pc = "idle"
  /\ retries = 0
  /\ blockhash = None /\ lastValidBlockHeight = None
  /\ transaction = NoTransaction /\ signature = None
  /\ startTime = 0 /\ result = "none"
  /\ now = 0
  /\ blockHeight = 0
  /\ outcome = "none"
  /\ nLease = 0 /\ nSend = 0 /\ nConfirm = 0 /\ nExpiry = 0
  /\ lastCall = "none" /\ lastEvent = "none"
  /\ fetched = NoLease /\ submitted = "nothing" /\ confirmArgs = NoConfirm
  /\ helperBegan = 0
  /\ overlapped = FALSE /\ nWait = 0 /\ caught = NoErr /\ landed = {}
  /\ component \in Components(variant)
  /\ balance = NoBalance /\ balanceKey = NoKey /\ pendingBalance = {}
  /\ closureKey = NoKey /\ sigHex = <<>>
  /\ message = <<>> /\ closureMessage = <<>> /\ signed = NoSigned

\* ------------------------------------------------------------ environment
\* The wallet adapter connects or disconnects the wallet.  The useEffect of
\* AirdropSection then runs getBalance, which calls connection.getBalance for
\* the new key and returns at once when there is none.  A running handler
\* of Sender or MessageSigner keeps the key it was started with.
Connect ==
  /\ publicKey = NoKey /\ (pc = "idle" \/ component = "AirdropSection")
  /\ publicKey' \in Wallets
  /\ pendingBalance' = IF component = "AirdropSection"
                         THEN pendingBalance \cup {publicKey'}
                         ELSE pendingBalance
  /\ UNCHANGED <<component, balance, balanceKey, closureKey, sigHex,
                 message, closureMessage, signed>>
  /\ UNCHANGED <<overlapped, nWait, landed, caught, variant, toAddress, sendAmount, loading, error, alertMsg,
                 pc, retries, blockhash, lastValidBlockHeight, transaction,
                 signature, startTime, result, now, blockHeight, outcome,
                 nLease, nSend, nConfirm, nExpiry, lastCall, lastEvent,
                 fetched, submitted, confirmArgs, helperBegan>>

Disconnect ==
  /\ publicKey # NoKey /\ (pc = "idle" \/ component = "AirdropSection")
  /\ publicKey' = NoKey
  /\ UNCHANGED panelVars
  /\ UNCHANGED <<overlapped, nWait, landed, caught, variant, toAddress, sendAmount, loading, error, alertMsg,
                 pc, retries, blockhash, lastValidBlockHeight, transaction,
                 signature, startTime, result, now, blockHeight, outcome,
                 nLease, nSend, nConfirm, nExpiry, lastCall, lastEvent,
                 fetched, submitted, confirmArgs, helperBegan>>

\* The cluster produces a block.
AdvanceBlock ==
  /\ blockHeight < MaxHeight
  /\ blockHeight' = blockHeight + 1
  /\ UNCHANGED <<overlapped, nWait, landed, variant, publicKey, toAddress, sendAmount, loading, error, caught,
                 alertMsg, pc, retries, blockhash, lastValidBlockHeight,
                 transaction, signature, startTime, result, now, outcome,
                 nLease, nSend, nConfirm, nExpiry, lastCall, lastEvent,
                 fetched, submitted, confirmArgs, helperBegan>>
  /\ UNCHANGED panelVars

\* What getLatestBlockhash answers at height h: the hash of block h, valid
\* for LeaseWindow more blocks.
LeaseAt(h) == [blockhash |-> h, lastValidBlockHeight |-> h + LeaseWindow]

\* A transaction anchored on the hash of block h is expired at height cur.
Expired(h, cur) == cur > h + LeaseWindow

\* ------------------------------------------------- Sender: pure fragments
\* Variant of the amount test that lets a zero amount through (< for <=).
AmountRejected_ZeroAllowed(a) == isNaN(a) \/ (~a.nan /\ a.mant < 0)

\* isNaN(amount) || amount <= 0
AmountRejected(a) == isNaN(a) \/ NonPositive(a)

\* The validation that opens handleSend: the alert it raises, or "ok".
\* part_000 reads the amount first and the recipient second; the prompting
\* variants ask for the recipient first and for the amount only afterwards.
Validate(v, pk, to, amt) ==
  IF pk = NoKey THEN "connect-wallet"
  ELSE IF v = "part_000"
    THEN IF AmountRejected(parseFloat(amt)) THEN "invalid-amount"
         ELSE IF PublicKeyThrows(to) THEN "invalid-recipient"
         ELSE "ok"
    ELSE IF IsFalsyString(to) THEN "recipient-required"
         ELSE IF PublicKeyThrows(to) THEN "invalid-recipient"
         ELSE IF AmountRejected(parseFloat(amt)) THEN "invalid-amount"
         ELSE "ok"

\* Variant of the transaction that is built without the fetched blockhash.
Transaction_NoBlockhash(v, hash, to, amt) ==
  [recentBlockhash |-> None, toPubkey |-> to,
   lamports |-> Lamports(v, parseFloat(amt))]

\* new Transaction({recentBlockhash}).add(SystemProgram.transfer({...}))
Transaction(v, hash, to, amt) ==
  [recentBlockhash |-> hash, toPubkey |-> to,
   lamports |-> Lamports(v, parseFloat(amt))]

\* Variant of the loop test that still polls at exactly the timeout (<= for <).
LoopContinues_Inclusive(t, start) == t - start <= timeout

\* part_000, confirmTransactionWithRetry: while (Date.now() - startTime < timeout)
LoopContinues(t, start) == t - start < timeout

\* Variant of the catch's test that takes every error for an expired lease.
IsBlockhashExpired_EveryError(msg) == TRUE

\* part_000, confirmTransactionWithRetry: the catch's test for an expired lease.
IsBlockhashExpired(msg) ==
  \/ Includes(msg, <<"Blockhash", "not", "found">>)
  \/ Includes(msg, <<"blockhash", "expired">>)

\* Variant of the helper that reports success when the loop runs out.
TimeoutResult_Success == "success"

\* part_000, confirmTransactionWithRetry: the value returned after the loop.
TimeoutResult == "timeout"

\* Variant of the helper that keeps polling with the lease it was given.
NextLease_KeepsOld(old, newBlockData) == old

\* part_000, confirmTransactionWithRetry: the lease used by the next
\* confirmation attempt after newBlockData was fetched.
NextLease(old, newBlockData) == newBlockData

\* Variant of the helper that restarts its budget when it refetches a lease.
StartTimeAfterRefetch_Restart(start, t) == t

\* part_000, confirmTransactionWithRetry: startTime after a lease was refetched.
StartTimeAfterRefetch(start, t) == start

\* part_001: err?.message.includes("Blockhash") && retries > 0
ShouldRetry(err, r) == Includes(err.message, <<"Blockhash">>) /\ r > 0

\* Variant of the loop that runs once more when retries has reached 0.
RetryLoopContinues_OffByOne(r) == r >= 0

\* part_001: while (retries > 0)
RetryLoopContinues(r) == r > 0

\* What confirmation.value.err holds when the transfer failed on chain.
ValueErr == <<"InstructionError">>

\* The errors thrown by the code itself.
TransactionFailed == Err("Error", <<"Transaction", "failed">>, <<>>)
ConfirmationTimedOut ==
  Err("Error", <<"Transaction", "confirmation", "timed", "out">>, <<>>)
ConfirmationFailed ==
  Err("Error", <<"Transaction", "confirmation", "failed">>, <<>>)

\* Variant of the catch that reports every error with the same text.
ErrorMessage_Generic(v, err) == <<"Transaction", "failed">>

\* The text handleSend's catch passes to setError.
ErrorMessage(v, err) ==
  CASE v = "part_000" ->
         IF err.name = "SendTransactionError"
           THEN <<"Error:">> \o err.message \o <<"Logs:">> \o
                (IF err.logs = <<>> THEN <<"No", "logs", "available">>
                 ELSE err.logs)
           ELSE <<"Transaction", "failed">>
    [] v = "part_001" ->
         IF err.name = "SendTransactionError"
           THEN <<"Transaction", "failed:">> \o err.message \o err.logs
           ELSE err.message
    [] OTHER -> <<"Transaction", "failed">>

\* ---------------------------------------------- Sender: exits of handleSend
\* catch (err) { setError(...) } finally { setLoading(false) }
CatchAndFinally(err) ==
  /\ error' = ErrorText(ErrorMessage(variant, err))
  /\ caught' = err
  /\ alertMsg' = IF variant = "part_000" THEN alertMsg ELSE "failed"
  /\ loading' = FALSE
  /\ outcome' = "error"
  /\ pc' = "idle"

\* alert(success); finally { setLoading(false) }
SuccessAndFinally ==
  /\ alertMsg' = "success"
  /\ loading' = FALSE
  /\ outcome' = "success"
  /\ pc' = "idle"
  /\ UNCHANGED <<error, caught>>

\* part_001: the while loop ends with retries = 0; finally { setLoading(false) }
LoopEndsAndFinally ==
  /\ loading' = FALSE
  /\ outcome' = "loop-ended"
  /\ pc' = "idle"
  /\ UNCHANGED <<error, alertMsg, caught>>

\* part_001: the inner catch, which retries or rethrows to the outer catch.
InnerCatch(err) ==
  IF ShouldRetry(err, retries)
    THEN /\ retries' = retries - 1
         /\ pc' = "sleep"
         /\ lastCall' = "setTimeout"
         /\ caught' = err
         /\ UNCHANGED <<loading, error, alertMsg, outcome>>
    ELSE /\ CatchAndFinally(err)
         /\ UNCHANGED <<retries, lastCall>>

\* A confirmation error that reports an expired lease: its message contains
\* 'Blockhash not found' or 'blockhash expired'.
SaysLeaseExpired(msg) ==
  \/ Includes(msg, <<"Blockhash", "not", "found">>)
  \/ Includes(msg, <<"blockhash", "expired">>)

\* Variant of the button that stays enabled while a transfer is loading.
ButtonDisabled_IgnoresLoading(l, pk) == pk = NoKey

\* The Send button: disabled={loading || !publicKey} (!connected in App.jsx
\* and part_002, where connected holds exactly when publicKey is set).  React
\* commits the state set by a handler before the next click is dispatched.
ButtonDisabled(l, pk) == l \/ pk = NoKey

\* ------------------------------------------------------ Sender: handleSend
\* The click on Send: validation, then setLoading(true), setError(null) and
\* the first await, which in every variant is the fetch of a blockhash.
HandleSend(to, amt) ==
  /\ component = "Sender"
  /\ ~ButtonDisabled(loading, publicKey)
  /\ overlapped' = (pc # "idle")
  /\ nWait' = 0 /\ caught' = NoErr /\ landed' = {}
  /\ variant = "part_000" => (~to.isNull /\ amt # NullText)
  /\ toAddress' = to /\ sendAmount' = amt
  /\ now' = 0
  /\ nExpiry' = 0 /\ lastEvent' = "none"
  /\ fetched' = NoLease /\ submitted' = "nothing" /\ confirmArgs' = NoConfirm
  /\ blockhash' = None /\ lastValidBlockHeight' = None
  /\ signature' = None /\ startTime' = 0 /\ helperBegan' = 0
  /\ result' = "none"
  /\ nSend' = 0 /\ nConfirm' = 0
  /\ IF Validate(variant, publicKey, to, amt) # "ok"
       THEN /\ alertMsg' = Validate(variant, publicKey, to, amt)
            /\ outcome' = "rejected"
            /\ nLease' = 0 /\ lastCall' = "none"
            /\ transaction' = NoTransaction
            /\ retries' = 0
            /\ UNCHANGED <<loading, error, pc>>
       ELSE /\ loading' = TRUE
            /\ error' = NoError
            /\ outcome' = "running"
            /\ retries' = IF variant = "part_001" THEN InitialRetries ELSE 0
            /\ transaction' = IF variant \in {"App", "part_002"}
                                THEN Transaction(variant, None, to, amt)
                                ELSE NoTransaction
            /\ nLease' = 1 /\ lastCall' = "getLatestBlockhash"
            /\ pc' = "awaitLease"
            /\ alertMsg' = "none"
  /\ UNCHANGED <<variant, publicKey, blockHeight>>
  /\ UNCHANGED panelVars

\* await connection.getLatestBlockhash(...) answers (getRecentBlockhash in
\* App.jsx and part_002, getLatestBlockhashAndContext in part_001).
LeaseReturns(d) ==
  /\ pc = "awaitLease"
  /\ now' = now + d
  /\ lastEvent' = "lease-ok"
  /\ fetched' = LeaseAt(blockHeight)
  /\ blockhash' = LeaseAt(blockHeight).blockhash
  /\ lastValidBlockHeight' =
       IF Retrying(variant) THEN LeaseAt(blockHeight).lastValidBlockHeight
       ELSE None
  /\ transaction' = Transaction(variant, LeaseAt(blockHeight).blockhash,
                                toAddress, sendAmount)
  /\ nSend' = nSend + 1 /\ lastCall' = "sendTransaction"
  /\ pc' = "awaitSend"
  /\ UNCHANGED <<overlapped, nWait, landed, variant, publicKey, toAddress, sendAmount, loading, error, caught,
                 alertMsg, retries, signature, startTime, result, blockHeight,
                 outcome, nLease, nConfirm, nExpiry, submitted, confirmArgs,
                 helperBegan>>
  /\ UNCHANGED panelVars

LeaseThrows(d, err) ==
  /\ pc = "awaitLease"
  /\ now' = now + d
  /\ lastEvent' = "lease-throw"
  /\ IF variant = "part_001" THEN InnerCatch(err)
     ELSE CatchAndFinally(err) /\ UNCHANGED <<retries, lastCall>>
  /\ UNCHANGED <<overlapped, nWait, landed, variant, publicKey, toAddress, sendAmount, blockhash,
                 lastValidBlockHeight, transaction, signature, startTime,
                 result, blockHeight, nLease, nSend, nConfirm, nExpiry,
                 fetched, submitted, confirmArgs, helperBegan>>
  /\ UNCHANGED panelVars

\* Variant of handleSend that neither alerts nor throws on 'timeout'.
HandleResult_NoThrow(r) ==
  IF r = "success" THEN SuccessAndFinally ELSE LoopEndsAndFinally

\* part_000, handleSend: if (result === 'success') alert(...) else throw ...
HandleResult(r) ==
  IF r = "success" THEN SuccessAndFinally
  ELSE CatchAndFinally(ConfirmationTimedOut)

\* part_000, confirmTransactionWithRetry: the loop test at time t, followed
\* either by the next confirmTransaction call or by the return after the loop.
HelperLoopTest(t, start, sig, hash, lvbh) ==
  IF LoopContinues(t, start)
    THEN /\ nConfirm' = nConfirm + 1
         /\ confirmArgs' = [signature |-> sig, blockhash |-> hash,
                            lastValidBlockHeight |-> lvbh]
         /\ lastCall' = "confirmTransaction"
         /\ pc' = "awaitConfirm"
         /\ UNCHANGED <<result, uiVars>>
    ELSE /\ result' = TimeoutResult
         /\ HandleResult(TimeoutResult)
         /\ UNCHANGED <<nConfirm, confirmArgs, lastCall>>

\* part_000, confirmTransactionWithRetry: the catch inside the loop.
HelperCatch(err) ==
  IF IsBlockhashExpired(err.message)
    THEN /\ nLease' = nLease + 1
         /\ lastCall' = "getLatestBlockhash"
         /\ pc' = "awaitNewLease"
         /\ UNCHANGED <<result, uiVars>>
    ELSE /\ result' = "thrown"
         /\ CatchAndFinally(err)
         /\ UNCHANGED <<nLease, lastCall>>

\* Errors of sendTransaction raised by the node, after the wallet signed and
\* handed the transaction over (the others are raised by the wallet before).
RaisedByNode(err) == err.name = "SendTransactionError"

\* What the cluster is handed when the wallet submits tx at height cur: a
\* transaction whose lease is still valid, or one whose lease has expired.
HandOver(tx, cur) ==
  IF Expired(tx.recentBlockhash, cur) THEN "expired-lease" ELSE "valid-lease"

\* The transfers accepted by the cluster once the wallet has handed over tx
\* under signature sig: a transfer handed over while its lease is valid is
\* accepted (the sender is funded), one with an expired lease is dropped.
ClusterAccepts(sig, tx, cur, accepted) ==
  IF HandOver(tx, cur) = "valid-lease" THEN accepted \cup {sig} ELSE accepted

\* await sendTransaction(transaction, connection) returns a signature: the
\* wallet has signed and handed the transaction to the cluster.
SendReturns(d) ==
  /\ pc = "awaitSend"
  /\ now' = now + d
  /\ lastEvent' = "send-ok"
  /\ submitted' = HandOver(transaction, blockHeight)
  /\ signature' = nSend
  /\ landed' = ClusterAccepts(nSend, transaction, blockHeight, landed)
  /\ IF variant = "part_000"
       THEN /\ startTime' = now + d
            /\ helperBegan' = now + d
            /\ HelperLoopTest(now + d, now + d, nSend, blockhash,
                              lastValidBlockHeight)
       ELSE /\ nConfirm' = nConfirm + 1
            /\ confirmArgs' = [signature |-> nSend, blockhash |-> blockhash,
                               lastValidBlockHeight |-> lastValidBlockHeight]
            /\ lastCall' = "confirmTransaction"
            /\ pc' = "awaitConfirm"
            /\ UNCHANGED <<startTime, helperBegan, result, uiVars>>
  /\ UNCHANGED <<overlapped, nWait, variant, publicKey, toAddress, sendAmount, retries,
                 blockhash, lastValidBlockHeight, transaction, blockHeight,
                 nLease, nSend, nExpiry, fetched>>
  /\ UNCHANGED panelVars

SendThrows(d, err) ==
  /\ pc = "awaitSend"
  /\ now' = now + d
  /\ lastEvent' = "send-throw"
  /\ submitted' = IF RaisedByNode(err)
                    THEN HandOver(transaction, blockHeight)
                    ELSE submitted
  /\ IF variant = "part_001" THEN InnerCatch(err)
     ELSE CatchAndFinally(err) /\ UNCHANGED <<retries, lastCall>>
  /\ UNCHANGED <<overlapped, nWait, landed, variant, publicKey, toAddress, sendAmount, blockhash,
                 lastValidBlockHeight, transaction, signature, startTime,
                 result, blockHeight, nLease, nSend, nConfirm, nExpiry,
                 fetched, confirmArgs, helperBegan>>
  /\ UNCHANGED panelVars

\* await connection.confirmTransaction(...) returns; valueErr tells whether
\* confirmation.value.err is set.
ConfirmReturns(d, valueErr) ==
  /\ pc = "awaitConfirm"
  /\ now' = now + d
  /\ lastEvent' = IF valueErr THEN "confirm-valueErr" ELSE "confirm-ok"
  /\ CASE variant = "part_000" ->
            IF valueErr
              THEN HelperCatch(TransactionFailed) /\ UNCHANGED retries
              ELSE /\ result' = "success"
                   /\ HandleResult("success")
                   /\ UNCHANGED <<retries, lastCall, nLease>>
       [] variant = "part_001" ->
            IF valueErr
              THEN InnerCatch(ConfirmationFailed) /\ UNCHANGED <<result, nLease>>
              ELSE /\ SuccessAndFinally
                   /\ UNCHANGED <<retries, lastCall, result, nLease>>
       [] OTHER ->
            /\ SuccessAndFinally
            /\ UNCHANGED <<retries, lastCall, result, nLease>>
  /\ UNCHANGED <<overlapped, nWait, landed, variant, publicKey, toAddress, sendAmount, blockhash,
                 lastValidBlockHeight, transaction, signature, startTime,
                 blockHeight, nSend, nConfirm, nExpiry, fetched, submitted,
                 confirmArgs, helperBegan>>
  /\ UNCHANGED panelVars

\* await connection.confirmTransaction(...) throws.
ConfirmThrows(d, err) ==
  /\ pc = "awaitConfirm"
  /\ now' = now + d
  /\ lastEvent' = IF SaysLeaseExpired(err.message) THEN "confirm-expired"
                  ELSE "confirm-other"
  /\ nExpiry' = IF SaysLeaseExpired(err.message) THEN nExpiry + 1 ELSE nExpiry
  /\ CASE variant = "part_000" -> HelperCatch(err) /\ UNCHANGED retries
       [] variant = "part_001" -> InnerCatch(err) /\ UNCHANGED <<result, nLease>>
       [] OTHER -> /\ CatchAndFinally(err)
                   /\ UNCHANGED <<retries, lastCall, result, nLease>>
  /\ UNCHANGED <<overlapped, nWait, landed, variant, publicKey, toAddress, sendAmount, blockhash,
                 lastValidBlockHeight, transaction, signature, startTime,
                 blockHeight, nSend, nConfirm, fetched, submitted,
                 confirmArgs, helperBegan>>
  /\ UNCHANGED panelVars

\* part_000, confirmTransactionWithRetry: the getLatestBlockhash of the catch
\* answers; the helper takes the new lease and starts its wait.
NewLeaseReturns(d) ==
  /\ pc = "awaitNewLease"
  /\ now' = now + d
  /\ lastEvent' = "lease-ok"
  /\ fetched' = LeaseAt(blockHeight)
  /\ blockhash' =
       NextLease([blockhash |-> blockhash,
                  lastValidBlockHeight |-> lastValidBlockHeight],
                 LeaseAt(blockHeight)).blockhash
  /\ lastValidBlockHeight' =
       NextLease([blockhash |-> blockhash,
                  lastValidBlockHeight |-> lastValidBlockHeight],
                 LeaseAt(blockHeight)).lastValidBlockHeight
  /\ startTime' = StartTimeAfterRefetch(startTime, now + d)
  /\ lastCall' = "setTimeout"
  /\ pc' = "sleep"
  /\ UNCHANGED <<overlapped, nWait, landed, variant, publicKey, toAddress, sendAmount, loading, error, caught,
                 alertMsg, retries, transaction, signature, result,
                 blockHeight, outcome, nLease, nSend, nConfirm, nExpiry,
                 submitted, confirmArgs, helperBegan>>
  /\ UNCHANGED panelVars

NewLeaseThrows(d, err) ==
  /\ pc = "awaitNewLease"
  /\ now' = now + d
  /\ lastEvent' = "lease-throw"
  /\ result' = "thrown"
  /\ CatchAndFinally(err)
  /\ UNCHANGED <<overlapped, nWait, landed, variant, publicKey, toAddress, sendAmount, retries,
                 blockhash, lastValidBlockHeight, transaction, signature,
                 startTime, blockHeight, nLease, nSend, nConfirm, nExpiry,
                 lastCall, fetched, submitted, confirmArgs, helperBegan>>
  /\ UNCHANGED panelVars

\* The setTimeout of the retry wait fires, d ms late.
TimerFires(d) ==
  /\ pc = "sleep"
  /\ lastEvent' = "slept"
  /\ nWait' = nWait + 1
  /\ IF variant = "part_000"
       THEN /\ now' = now + retryInterval + d
            /\ HelperLoopTest(now + retryInterval + d, startTime, signature,
                              blockhash, lastValidBlockHeight)
            /\ UNCHANGED nLease
       ELSE /\ now' = now + RetryWait + d
            /\ IF RetryLoopContinues(retries)
                 THEN /\ nLease' = nLease + 1
                      /\ lastCall' = "getLatestBlockhash"
                      /\ pc' = "awaitLease"
                      /\ UNCHANGED uiVars
                 ELSE /\ LoopEndsAndFinally
                      /\ UNCHANGED <<nLease, lastCall>>
            /\ UNCHANGED <<result, nConfirm, confirmArgs>>
  /\ UNCHANGED <<overlapped, landed, variant, publicKey, toAddress, sendAmount, retries,
                 blockhash, lastValidBlockHeight, transaction, signature,
                 startTime, blockHeight, nSend, nExpiry, fetched, submitted,
                 helperBegan>>
  /\ UNCHANGED panelVars

\* ----------------------------------------------------------- AirdropSection
\* The validation that opens requestAirdrop: the alert it raises, or "ok".
\* App.jsx and part_002 test isNaN and amount <= 0 apart.
AirdropValidate(v, pk, amt) ==
  IF pk = NoKey THEN "connect-wallet"
  ELSE IF isNaN(parseFloat(amt))
    THEN IF v \in {"App", "part_002"} THEN "not-a-number" ELSE "invalid-amount"
  ELSE IF NonPositive(parseFloat(amt)) THEN "invalid-amount"
  ELSE "ok"

\* The text that the catch of requestAirdrop passes to setError.
AirdropErrorMessage(v, err) ==
  IF Retrying(v) THEN <<"Airdrop", "failed:">> \o err.message
  ELSE <<"Failed", "to", "request", "airdrop">>

\* The text that the catch of handleSignMessage passes to setError.
SignErrorMessage(v, err) ==
  IF Retrying(v) THEN <<"Signing", "failed:">> \o err.message
  ELSE <<"Failed", "to", "sign", "message">>

\* Variant of the exit in which finally does not clear loading.
PanelCatch_NoFinally(text, err) ==
  /\ error' = ErrorText(text)
  /\ caught' = err
  /\ outcome' = "error"
  /\ pc' = "idle"
  /\ UNCHANGED <<alertMsg, loading>>

\* catch (err) { setError(text) } finally { setLoading(false) } of
\* requestAirdrop and handleSignMessage.
PanelCatch(text, err) ==
  /\ error' = ErrorText(text)
  /\ caught' = err
  /\ loading' = FALSE
  /\ outcome' = "error"
  /\ pc' = "idle"
  /\ UNCHANGED alertMsg

\* The click on Request Airdrop: validation, setLoading(true), setError(null)
\* and await connection.requestAirdrop(publicKey, ...).
RequestAirdrop(amt) ==
  /\ component = "AirdropSection"
  /\ ~ButtonDisabled(loading, publicKey)
  /\ overlapped' = (pc # "idle")
  /\ caught' = NoErr
  /\ IF AirdropValidate(variant, publicKey, amt) # "ok"
       THEN /\ alertMsg' = AirdropValidate(variant, publicKey, amt)
            /\ outcome' = "rejected"
            /\ UNCHANGED <<loading, error, pc, closureKey>>
       ELSE /\ loading' = TRUE
            /\ error' = NoError
            /\ outcome' = "running"
            /\ alertMsg' = "none"
            /\ closureKey' = publicKey
            /\ pc' = "awaitAirdrop"
  /\ UNCHANGED <<variant, publicKey, blockHeight, component, balance,
                 balanceKey, pendingBalance, sigHex, message,
                 closureMessage, signed>>
  /\ UNCHANGED senderVars

\* await connection.requestAirdrop(...) answers: with a signature, and then
\* confirmTransaction(signature, "finalized") is awaited, or with err.
RequestAirdropAnswers(err) ==
  /\ pc = "awaitAirdrop"
  /\ IF err = NoErr
       THEN /\ pc' = "awaitAirdropConfirm"
            /\ UNCHANGED uiVars
       ELSE PanelCatch(AirdropErrorMessage(variant, err), err)
  /\ UNCHANGED <<variant, publicKey, blockHeight, overlapped>>
  /\ UNCHANGED panelVars
  /\ UNCHANGED senderVars

\* await connection.confirmTransaction(signature, "finalized") answers; its
\* result is not read.  Then await getBalance() calls connection.getBalance
\* for the key of the handler's closure.
AirdropConfirmAnswers(err) ==
  /\ pc = "awaitAirdropConfirm"
  /\ IF err = NoErr
       THEN /\ pc' = "awaitBalance"
            /\ UNCHANGED uiVars
       ELSE PanelCatch(AirdropErrorMessage(variant, err), err)
  /\ UNCHANGED <<variant, publicKey, blockHeight, overlapped>>
  /\ UNCHANGED panelVars
  /\ UNCHANGED senderVars

\* The getBalance awaited by requestAirdrop answers.  getBalance catches its
\* own error, so requestAirdrop alerts success either way; finally.
AwaitedGetBalanceAnswers(err, bal) ==
  /\ pc = "awaitBalance"
  /\ IF err = NoErr
       THEN /\ balance' = SolBalance(bal)
            /\ balanceKey' = closureKey
            /\ UNCHANGED <<error, caught>>
       ELSE /\ error' = ErrorText(<<"Failed", "to", "fetch", "balance">>)
            /\ caught' = err
            /\ UNCHANGED <<balance, balanceKey>>
  /\ alertMsg' = "success"
  /\ loading' = FALSE
  /\ outcome' = "success"
  /\ pc' = "idle"
  /\ UNCHANGED <<variant, publicKey, blockHeight, overlapped, component,
                 pendingBalance, closureKey, sigHex, message,
                 closureMessage, signed>>
  /\ UNCHANGED senderVars

\* A getBalance started by useEffect for key k answers: setBalance, or
\* setError("Failed to fetch balance").  Nothing compares k with publicKey.
GetBalanceAnswers(k, err, bal) ==
  /\ k \in pendingBalance
  /\ pendingBalance' = pendingBalance \ {k}
  /\ IF err = NoErr
       THEN /\ balance' = SolBalance(bal)
            /\ balanceKey' = k
            /\ UNCHANGED error
       ELSE /\ error' = ErrorText(<<"Failed", "to", "fetch", "balance">>)
            /\ UNCHANGED <<balance, balanceKey>>
  /\ UNCHANGED <<variant, publicKey, blockHeight, overlapped, component,
                 closureKey, sigHex, message, closureMessage, signed, pc,
                 loading, alertMsg, outcome, caught>>
  /\ UNCHANGED senderVars

\* ------------------------------------------------------------ MessageSigner
\* The validation that opens handleSignMessage.
SignValidate(pk, text) ==
  IF pk = NoKey THEN "connect-wallet"
  ELSE IF Trim(text) = <<>> THEN "message-required"
  ELSE "ok"

\* onChange of the textarea: setMessage(e.target.value).  The textarea is
\* never disabled, and nothing but the message changes.
SetMessage(text) ==
  /\ component = "MessageSigner"
  /\ text # message
  /\ message' = text
  /\ UNCHANGED <<variant, publicKey, blockHeight, overlapped, component,
                 balance, balanceKey, pendingBalance, closureKey, sigHex,
                 closureMessage, signed>>
  /\ UNCHANGED <<uiVars, pc>>
  /\ UNCHANGED senderVars

\* The click on Sign Message: validation, setLoading(true), setError(null)
\* and await signMessage(messageBytes) for the message of this render.
HandleSignMessage ==
  /\ component = "MessageSigner"
  /\ ~ButtonDisabled(loading, publicKey)
  /\ overlapped' = (pc # "idle")
  /\ caught' = NoErr
  /\ IF SignValidate(publicKey, message) # "ok"
       THEN /\ alertMsg' = SignValidate(publicKey, message)
            /\ outcome' = "rejected"
            /\ UNCHANGED <<loading, error, pc, closureKey, closureMessage>>
       ELSE /\ loading' = TRUE
            /\ error' = NoError
            /\ outcome' = "running"
            /\ alertMsg' = "none"
            /\ closureKey' = publicKey
            /\ closureMessage' = message
            /\ pc' = "awaitSign"
  /\ UNCHANGED <<variant, publicKey, blockHeight, component, balance,
                 balanceKey, pendingBalance, sigHex, message, signed>>
  /\ UNCHANGED senderVars

\* await signMessage(messageBytes) answers: setSignature(hex of the bytes),
\* or the catch, which leaves the signature state as it is; finally.
SignMessageAnswers(err, bytes) ==
  /\ pc = "awaitSign"
  /\ IF err = NoErr
       THEN /\ sigHex' = SignatureHex(variant, bytes)
            /\ signed' = [message |-> closureMessage, bytes |-> bytes]
            /\ loading' = FALSE
            /\ outcome' = "success"
            /\ pc' = "idle"
            /\ UNCHANGED <<error, alertMsg, caught>>
       ELSE /\ PanelCatch(SignErrorMessage(variant, err), err)
            /\ UNCHANGED <<sigHex, signed>>
  /\ UNCHANGED <<variant, publicKey, blockHeight, overlapped, component,
                 balance, balanceKey, pendingBalance, closureKey, message,
                 closureMessage>>
  /\ UNCHANGED senderVars

\* ------------------------------------------------------------ specification
Next ==
  \/ Connect
  \/ Disconnect
  \/ AdvanceBlock
  \/ \E to \in RecipientInputs, amt \in AmountInputs : HandleSend(to, amt)
  \/ \E d \in Delays : LeaseReturns(d)
  \/ \E d \in Delays, err \in LeaseErrors : LeaseThrows(d, err)
  \/ \E d \in Delays : SendReturns(d)
  \/ \E d \in Delays, err \in SendErrors : SendThrows(d, err)
  \/ \E d \in Delays, valueErr \in BOOLEAN : ConfirmReturns(d, valueErr)
  \/ \E d \in Delays, err \in ConfirmErrors : ConfirmThrows(d, err)
  \/ \E d \in Delays : NewLeaseReturns(d)
  \/ \E d \in Delays, err \in LeaseErrors : NewLeaseThrows(d, err)
  \/ \E d \in Delays : TimerFires(d)
  \/ \E amt \in AirdropAmountInputs : RequestAirdrop(amt)
  \/ \E err \in PanelErrors \cup {NoErr} : RequestAirdropAnswers(err)
  \/ \E err \in PanelErrors \cup {NoErr} : AirdropConfirmAnswers(err)
  \/ \E err \in PanelErrors \cup {NoErr}, bal \in BalanceAnswers :
        AwaitedGetBalanceAnswers(err, bal)
  \/ \E k \in Wallets, err \in PanelErrors \cup {NoErr},
        bal \in BalanceAnswers : GetBalanceAnswers(k, err, bal)
  \/ \E text \in MessageInputs : SetMessage(text)
  \/ HandleSignMessage
  \/ \E err \in PanelErrors \cup {NoErr}, bytes \in SignatureBytes :
        SignMessageAnswers(err, bytes)

Spec == Init /\ [][Next]_vars

\* Every wallet call, RPC call and timer of the invocation is answered.
Respond ==
  \/ \E d \in Delays : LeaseReturns(d)
  \/ \E d \in Delays, err \in LeaseErrors : LeaseThrows(d, err)
  \/ \E d \in Delays : SendReturns(d)
  \/ \E d \in Delays, err \in SendErrors : SendThrows(d, err)
  \/ \E d \in Delays, valueErr \in BOOLEAN : ConfirmReturns(d, valueErr)
  \/ \E d \in Delays, err \in ConfirmErrors : ConfirmThrows(d, err)
  \/ \E d \in Delays : NewLeaseReturns(d)
  \/ \E d \in Delays, err \in LeaseErrors : NewLeaseThrows(d, err)
  \/ \E d \in Delays : TimerFires(d)
  \/ \E err \in PanelErrors \cup {NoErr} : RequestAirdropAnswers(err)
  \/ \E err \in PanelErrors \cup {NoErr} : AirdropConfirmAnswers(err)
  \/ \E err \in PanelErrors \cup {NoErr}, bal \in BalanceAnswers :
        AwaitedGetBalanceAnswers(err, bal)
  \/ \E k \in Wallets, err \in PanelErrors \cup {NoErr},
        bal \in BalanceAnswers : GetBalanceAnswers(k, err, bal)
  \/ \E err \in PanelErrors \cup {NoErr}, bytes \in SignatureBytes :
        SignMessageAnswers(err, bytes)

\* The program of part_000, which is the one that has the timeout, with every
\* call answered.
InitPart000 == Init /\ variant = "part_000"

FairSpec == InitPart000 /\ [][Next]_vars /\ WF_vars(Respond)

\* ------------------------------------------- the transfer of handleSend
\* handleSend as far as the transfer it builds: the validation, and for an
\* input that passes it the SystemProgram.transfer instruction whose lamports
\* sendTransaction is handed.  The wallet is connected.
BuildTransfer(to, amt) ==
  /\ variant = "part_000" => (~to.isNull /\ amt # NullText)
  /\ toAddress' = to /\ sendAmount' = amt
  /\ IF Validate(variant, publicKey, to, amt) # "ok"
       THEN /\ alertMsg' = Validate(variant, publicKey, to, amt)
            /\ outcome' = "rejected"
            /\ transaction' = NoTransaction
       ELSE /\ alertMsg' = "none"
            /\ outcome' = "running"
            /\ transaction' = Transaction(variant, None, to, amt)
  /\ UNCHANGED <<variant, publicKey, loading, error, pc, retries, blockhash,
                 lastValidBlockHeight, signature, startTime, result, now,
                 blockHeight, nLease, nSend, nConfirm, nExpiry, lastCall,
                 lastEvent, fetched, submitted, confirmArgs, helperBegan,
                 overlapped, nWait, caught, landed>>
  /\ UNCHANGED panelVars

TransferInit ==
  /\ variant \in Variants
  /\ publicKey \in Wallets
  /\ component = "Sender"
  /\ toAddress = EmptyAddr /\ sendAmount = <<>>
  /\ loading = FALSE /\ error = NoError /\ alertMsg = "none"
  /\ pc = "idle"
  /\ retries = 0
  /\ blockhash = None /\ lastValidBlockHeight = None
  /\ transaction = NoTransaction /\ signature = None
  /\ startTime = 0 /\ result = "none"
  /\ now = 0
  /\ blockHeight = 0
  /\ outcome = "none"
  /\ nLease = 0 /\ nSend = 0 /\ nConfirm = 0 /\ nExpiry = 0
  /\ lastCall = "none" /\ lastEvent = "none"
  /\ fetched = NoLease /\ submitted = "nothing" /\ confirmArgs = NoConfirm
  /\ helperBegan = 0
  /\ overlapped = FALSE /\ nWait = 0 /\ caught = NoErr /\ landed = {}
  /\ balance = NoBalance /\ balanceKey = NoKey /\ pendingBalance = {}
  /\ closureKey = NoKey /\ sigHex = <<>>
  /\ message = <<>> /\ closureMessage = <<>> /\ signed = NoSigned

TransferNext ==
  \E to \in RecipientInputs, amt \in AmountInputs \cup TinyAmountInputs :
     BuildTransfer(to, amt)

TransferSpec == TransferInit /\ [][TransferNext]_vars

\* ------------------------------------------------------------------ claims
\* The invocation has issued a wallet, RPC or timer call.
MadeACall == nLease + nSend + nConfirm > 0 \/ lastCall # "none"

\* C1: an invocation whose recipient is empty or no valid public key, or
\* whose parsed amount is NaN or <= 0, makes no RPC or wallet call: whenever
\* a call has been made, recipient and amount of the invocation are valid,
\* and a rejected invocation has made none and left the component idle.
C1_RejectedBeforeAnyCall ==
  /\ MadeACall =>
       /\ ~IsFalsyString(toAddress) /\ ~PublicKeyThrows(toAddress)
       /\ ~parseFloat(sendAmount).nan /\ parseFloat(sendAmount).mant > 0
  /\ outcome = "rejected" => (~MadeACall /\ pc = "idle" /\ ~loading)

C1_Witness ==
  /\ outcome = "rejected" /\ ~MadeACall
  /\ alertMsg = "invalid-amount"
  /\ parseFloat(sendAmount) = Num(0, 0)
  /\ ~PublicKeyThrows(toAddress)

\* The invocation passed validation and has ended.
Ended == pc = "idle" /\ outcome \in {"success", "error", "loop-ended"}

\* C2: in part_000 and part_001, an invocation that passed validation and
\* did not end with the success alert ends with a non-null error state.
C2_EveryFailureSurfaced ==
  (Retrying(variant) /\ component = "Sender" /\ Ended
     /\ alertMsg # "success") => ~error.isNull

\* C3: in part_000, after a confirmation attempt failed on an expired lease,
\* sendTransaction has been called again before the next confirmation
\* attempt: one submission for the first lease and one for each expiry.
C3_ResubmittedAfterExpiry ==
  (variant = "part_000" /\ pc = "awaitConfirm") => nSend = nExpiry + 1

\* The confirmation errors that are no lease expiry.
FatalConfirmErrors ==
  {e \in ConfirmErrors \cup {TransactionFailed} : ~SaysLeaseExpired(e.message)}

\* C4: in part_000, the error state reported after a confirmation timeout
\* is none of the error states reported for a fatal confirmation error.
C4_TimeoutDistinctFromFailure ==
  (variant = "part_000" /\ Ended /\ result = "timeout") =>
    \A e \in FatalConfirmErrors : error # ErrorText(ErrorMessage(variant, e))

\* C5: in part_000, when the retry wait ends with the time since the helper
\* began at or beyond the timeout, the helper has returned 'timeout' (it has
\* neither thrown nor returned 'success'), and it returns 'timeout' only so.
C5_TimeoutReturned ==
  variant = "part_000" =>
    /\ (lastEvent = "slept" /\ now - helperBegan >= timeout) => result = "timeout"
    /\ result = "timeout" => (lastEvent = "slept" /\ now - helperBegan >= timeout)

C5_Witness ==
  /\ variant = "part_000" /\ result = "timeout" /\ pc = "idle"
  /\ nExpiry >= 2 /\ lastEvent = "slept"

\* C6: in part_000, a confirmation attempt that fails for another reason
\* than lease expiry ends the helper with a throw at once: the failed
\* confirmTransaction is the last call and no lease fetch follows it.
C6_FatalEndsAtOnce ==
  (variant = "part_000" /\ lastEvent \in {"confirm-valueErr", "confirm-other"}) =>
    /\ pc = "idle" /\ result = "thrown"
    /\ lastCall = "confirmTransaction"
    /\ nLease = nExpiry + 1

C6_Witness ==
  /\ variant = "part_000" /\ lastEvent = "confirm-other" /\ result = "thrown"
  /\ nExpiry >= 1 /\ nConfirm >= 2

\* C7: in part_000, the helper has fetched one replacement lease for each
\* expiry error seen and none else (the invocation's lease fetches are the
\* first one plus one per expiry), and every confirmation attempt uses the
\* blockhash and lastValidBlockHeight of the lease fetched last.
C7_OneLeasePerExpiry ==
  variant = "part_000" =>
    /\ nLease > 0 => nLease = nExpiry + 1
    /\ pc = "awaitConfirm" =>
         /\ confirmArgs.blockhash = fetched.blockhash
         /\ confirmArgs.lastValidBlockHeight = fetched.lastValidBlockHeight

C7_Witness ==
  /\ variant = "part_000" /\ pc = "awaitConfirm" /\ nExpiry >= 2
  /\ confirmArgs.blockhash # transaction.recentBlockhash

InHelper == pc \in {"awaitConfirm", "awaitNewLease", "sleep"}

\* C8: in part_000, the start time the helper measures its budget from stays
\* the time at which the helper began, also after a replacement lease was
\* fetched, and a confirmation attempt starts only within timeout of it.
C8_BudgetNotReset ==
  (variant = "part_000" /\ InHelper) =>
    /\ startTime = helperBegan
    /\ pc = "awaitConfirm" => now - helperBegan < timeout

C8_Witness ==
  /\ variant = "part_000" /\ pc = "awaitConfirm" /\ nExpiry >= 1
  /\ helperBegan > 0 /\ now - helperBegan >= timeout \div 2

\* C9: whenever the wallet hands a transaction to the cluster, the lease
\* the transaction carries has not expired.
C9_LeaseValidAtSubmission == submitted # "expired-lease"

\* C10: in every variant, sendTransaction is called only after a lease was
\* fetched and with a transaction whose recentBlockhash is the value just
\* fetched; confirmTransaction is called only after sendTransaction returned
\* a signature, and on the signature returned last.
C10_FetchSendConfirmOrder ==
  /\ nSend > 0 => nLease > 0
  /\ nConfirm > 0 => (nSend > 0 /\ signature # None)
  /\ pc = "awaitSend" =>
       /\ lastEvent = "lease-ok" /\ fetched # NoLease
       /\ transaction.recentBlockhash = fetched.blockhash
       /\ nSend <= nLease
  /\ pc = "awaitConfirm" =>
       /\ confirmArgs.signature = signature /\ signature = nSend
       /\ variant # "part_000" => (lastEvent = "send-ok" /\ nConfirm <= nSend)

C10_Witness ==
  /\ variant = "part_001" /\ pc = "awaitConfirm" /\ nSend = 2
  /\ confirmArgs.signature = 2 /\ transaction.recentBlockhash > 0

\* C11: at most one transfer is in flight in a Sender: no click starts an
\* invocation while another one is between validation and its end, and
\* loading is true for the whole of that time.
C11_OneTransferInFlight == ~overlapped /\ (pc # "idle" => loading)

C11_Witness ==
  /\ pc = "awaitConfirm" /\ loading /\ ~overlapped
  /\ ButtonDisabled(loading, publicKey) /\ nSend = 1 /\ landed # {}

\* The terminal results of an invocation of part_000.
Confirmed == outcome = "success" /\ result = "success"
TimedOut  == outcome = "error" /\ result = "timeout"
Failed    == outcome = "error" /\ result \in {"none", "thrown"}
Terminal  == Confirmed \/ TimedOut \/ Failed

\* C12: in part_000, when every call is answered, an invocation that passed
\* validation ends with one of confirmed, failed and timed-out, and once it
\* has ended nothing but a new click issues a call or changes the result.
C12_EndsWithOneResult ==
  /\ (variant = "part_000" /\ component = "Sender" /\ pc # "idle")
       ~> (pc = "idle" /\ Terminal)
  /\ [][(variant = "part_000" /\ component = "Sender" /\ pc = "idle"
           /\ outcome' # "rejected"
           /\ pc' = "idle")
          => UNCHANGED <<nLease, nSend, nConfirm, lastCall, outcome, result>>]_vars

C12_Witness ==
  /\ variant = "part_000" /\ pc = "idle" /\ Failed
  /\ result = "thrown" /\ nConfirm >= 2 /\ lastCall = "getLatestBlockhash"

\* C13: in part_000, the helper is not running any more once the time since
\* it began has reached the timeout.
C13_TimeoutStopsHelper ==
  (variant = "part_000" /\ InHelper) => now - helperBegan < timeout

\* C14: in part_000, a confirmation attempt starts only within timeout of
\* the helper's start, each attempt after the first follows exactly one
\* wait of at least retryInterval, and one call makes at most 30 attempts.
C14_AttemptsBounded ==
  variant = "part_000" =>
    /\ nConfirm <= 30
    /\ nConfirm > 0 => nWait \in {nConfirm - 1, nConfirm}
    /\ pc = "awaitConfirm" =>
         /\ now - helperBegan < timeout
         /\ nWait = nConfirm - 1
         /\ now - helperBegan >= retryInterval * nWait

C14_Witness ==
  variant = "part_000" /\ pc = "awaitConfirm" /\ nConfirm = 30 /\ nWait = 29

\* C15: when the confirmation returned value.err, the error state of the
\* ended invocation carries that on-chain failure reason.
C15_FailureReasonSurfaced ==
  (lastEvent = "confirm-valueErr" /\ pc = "idle") =>
    (~error.isNull /\ Includes(error.text, ValueErr))

\* C16: in part_000 and part_001, the error state set for a
\* SendTransactionError thrown by sendTransaction holds the error's message
\* and its logs ('No logs available' in part_000 when it has none), and is
\* not the error state of any error that is no SendTransactionError.
C16_SubmissionErrorReported ==
  (Retrying(variant) /\ pc = "idle" /\ outcome = "error"
     /\ lastEvent = "send-throw" /\ caught.name = "SendTransactionError") =>
    /\ Includes(error.text, caught.message)
    /\ Includes(error.text, caught.logs)
    /\ (variant = "part_000" /\ caught.logs = <<>>) =>
         Includes(error.text, <<"No", "logs", "available">>)
    /\ error # ErrorText(ErrorMessage(variant, [caught EXCEPT !.name = "Error"]))
    /\ \A e \in SendErrors \cup LeaseErrors \cup ConfirmErrors :
         e.name # "SendTransactionError" =>
           error # ErrorText(ErrorMessage(variant, e))

C16_Witness ==
  /\ variant = "part_000" /\ pc = "idle" /\ outcome = "error"
  /\ lastEvent = "send-throw" /\ caught.name = "SendTransactionError"
  /\ caught.logs = <<>>

\* C17: in part_001, the cluster accepts at most one of the transfers that
\* one invocation sent.
C17_CreditedAtMostOnce ==
  variant = "part_001" => Cardinality(landed) <= 1

\* C19: in part_001, an invocation fetches at most 3 leases and sends at most
\* 3 times; retries stays in 0..3 and is 3 less the 'Blockhash' errors
\* caught so far (one per attempt that was repeated); an error without
\* 'Blockhash' ends the loop with the attempt that raised it.
C19_RetriesBounded ==
  (variant = "part_001" /\ component = "Sender"
     /\ outcome \notin {"none", "rejected"}) =>
    /\ retries \in 0..3 /\ nLease <= 3 /\ nSend <= 3
    /\ pc \in {"awaitLease", "awaitSend", "awaitConfirm"} =>
         nLease = 3 - retries + 1
    /\ pc = "sleep" =>
         (nLease = 3 - retries /\ Includes(caught.message, <<"Blockhash">>))
    /\ (pc = "idle" /\ outcome = "error") =>
         (~Includes(caught.message, <<"Blockhash">>) /\ nLease = 3 - retries + 1)
    /\ outcome = "loop-ended" => (retries = 0 /\ nLease = 3 /\ nWait = 3)

C19_Witness ==
  variant = "part_001" /\ outcome = "loop-ended" /\ nSend = 3 /\ retries = 0

\* C18: in every variant and for each of Sender, AirdropSection and
\* MessageSigner, loading is true exactly while an invocation of the
\* component's handler that passed validation has not finished; it is false
\* after every exit of the handler.
C18_LoadingWhileRunning ==
  /\ loading <=> pc # "idle"
  /\ outcome \in {"success", "error", "loop-ended", "rejected"} => ~loading
  /\ outcome = "running" <=> pc # "idle"

C18_Witness ==
  /\ component = "MessageSigner" /\ pc = "idle" /\ ~loading
  /\ outcome = "error" /\ caught.name = "WalletSignMessageError"

\* C20: the balance shown by AirdropSection is N/A or was fetched for the
\* key that is connected now.
C20_BalanceOfConnectedKey ==
  component = "AirdropSection" =>
    (balance.isNull \/ balanceKey = publicKey)

\* C21: the transfer built for an amount that passed validation carries a
\* whole, positive number of lamports.
C21_WholePositiveLamports ==
  transaction # NoTransaction =>
    (transaction.lamports.den = 1 /\ transaction.lamports.num > 0)

\* The bytes that a hexadecimal text of even length stands for.
HexVal(c) == CHOOSE n \in 0..15 : HexDigit(n) = c
RECURSIVE HexDecode(_)
HexDecode(h) ==
  IF Len(h) < 2 THEN <<>>
  ELSE <<16 * HexVal(h[1]) + HexVal(h[2])>> \o HexDecode(SubSeq(h, 3, Len(h)))

\* C22: a signature shown by MessageSigner is the hexadecimal text of the
\* wallet's signature over the message that the input holds now.
C22_SignatureOfCurrentMessage ==
  sigHex # <<>> =>
    (signed.message = message /\ HexDecode(sigHex) = signed.bytes)

====
